---------------------------- MODULE Spec2Model ----------------------------
(***************************************************************************)
(* Model of src/conf_mode/lldp.py: the LLDP configuration script.          *)
(*                                                                         *)
(* One invocation runs get_config -> verify -> generate -> apply on the    *)
(* configuration snapshot of a commit.  The persistent resources are the   *)
(* two generated files and the state of lldpd.service.                     *)
(*                                                                         *)
(* Representation of Python values:                                        *)
(*   - a str is a sequence of one-character strings, so that the regular   *)
(*     expressions and int() can be computed; Python None in a place that  *)
(*     otherwise holds a str is NoStr;                                     *)
(*   - node names returned by list_nodes for interfaces are TLA+ strings;  *)
(*   - a dict is a record, the empty dict is <<>>;                         *)
(*   - where the code can produce either the int 0 or a list / a dict,     *)
(*     the int is Zero and the list is PyList(s);                          *)
(*   - the model object is None or a record.                               *)
(***************************************************************************)
EXTENDS Integers, Sequences, FiniteSets, TLC

VARIABLES
    cfg,        \* configuration snapshot read through vyos.config.Config
    pc,         \* position of the __main__ block
    c,          \* the local c of __main__ (the lldp model)
    files,      \* file system: path -> rendered lines, for the paths that exist
    lldpd,      \* state of lldpd.service
    syscalls,   \* os.system commands issued by the current invocation
    exc,        \* exception that ended the current invocation, or NoExc
    stdout,     \* text printed by the current invocation
    ran,        \* stages the current invocation has entered, in order
    pre         \* files and lldpd as they were when the invocation started

vars == <<cfg, pc, c, files, lldpd, syscalls, exc, stdout, ran, pre>>

-----------------------------------------------------------------------------
(* Bounds *)

\* largest number of interface nodes under "service lldp"
MaxIntfs == 2

-----------------------------------------------------------------------------
(* Python values *)

None == [py |-> "None"]
Zero == [int |-> 0]
NoStr == <<"None">>
EmptyDict == << >>

PyList(s) == [list |-> s]
IsInt(v) == "int" \in DOMAIN v
PyLen(d) == Cardinality(DOMAIN d)
\* truth value of an optional str: None and '' are false
Truthy(s) == s # NoStr /\ s # << >>

RECURSIVE Str(_)
Str(s) == IF s = << >> THEN "" ELSE Head(s) \o Str(Tail(s))

RECURSIVE Join(_, _)
Join(l, sep) ==
    IF l = << >> THEN ""
    ELSE IF Len(l) = 1 THEN l[1]
    ELSE l[1] \o sep \o Join(Tail(l), sep)

NoExc == [type |-> "none", msg |-> ""]
Raise(type, msg) == [type |-> type, msg |-> msg]
ConfigError(msg) == Raise("ConfigError", msg)

-----------------------------------------------------------------------------
(* Regular expressions and int() *)

Digits == {"0", "1", "2", "3", "4", "5", "6", "7", "8", "9"}
Alpha == {"a", "b", "c", "d", "e", "f", "g", "h", "i", "j", "k", "l", "m",
          "n", "o", "p", "q", "r", "s", "t", "u", "v", "w", "x", "y", "z",
          "A", "B", "C", "D", "E", "F", "G", "H", "I", "J", "K", "L", "M",
          "N", "O", "P", "Q", "R", "S", "T", "U", "V", "W", "X", "Y", "Z"}

AllIn(s, S) == \A i \in 1..Len(s) : s[i] \in S

\* ^[a-zA-Z]{2}$
ReCountryCode(s) == Len(s) = 2 /\ AllIn(s, Alpha)

\* (\d+)(\.\d+)?
ReNumber(s) ==
    \/ Len(s) >= 1 /\ AllIn(s, Digits)
    \/ \E k \in 2..(Len(s) - 1) :
          /\ s[k] = "."
          /\ AllIn(SubSeq(s, 1, k - 1), Digits)
          /\ AllIn(SubSeq(s, k + 1, Len(s)), Digits)

\* ^(\d+)(\.\d+)?[nNsS]$
ReLatitude(s) ==
    /\ Len(s) >= 2
    /\ s[Len(s)] \in {"n", "N", "s", "S"}
    /\ ReNumber(SubSeq(s, 1, Len(s) - 1))

\* ^(\d+)(\.\d+)?[eEwW]$
ReLongitude(s) ==
    /\ Len(s) >= 2
    /\ s[Len(s)] \in {"e", "E", "w", "W"}
    /\ ReNumber(SubSeq(s, 1, Len(s) - 1))

\* ^[-+0-9\.]+$
ReAltitude(s) == Len(s) >= 1 /\ AllIn(s, Digits \cup {"-", "+", "."})

\* ^(WGS84|NAD83|MLLW)$
ReDatum(s) == s \in {<<"W", "G", "S", "8", "4">>, <<"N", "A", "D", "8", "3">>,
                     <<"M", "L", "L", "W">>}

\* ^[0-9]{10,25}$
ReElin(s) == Len(s) >= 10 /\ Len(s) <= 25 /\ AllIn(s, Digits)

DigitVal(ch) == CHOOSE n \in 0..9 : ch = <<"0", "1", "2", "3", "4", "5", "6", "7", "8", "9">>[n + 1]

RECURSIVE DigitsVal(_)
DigitsVal(s) == IF s = << >> THEN 0
                ELSE 10 * DigitsVal(SubSeq(s, 1, Len(s) - 1)) + DigitVal(s[Len(s)])

\* int(s), PyInt(s) when IntOK(s): an optional sign and decimal digits; anything else is a ValueError
IntOK(s) ==
    /\ Len(s) >= 1
    /\ IF s[1] \in {"+", "-"} THEN Len(s) >= 2 /\ AllIn(Tail(s), Digits)
                              ELSE AllIn(s, Digits)
PyInt(s) == IF s[1] = "-" THEN 0 - DigitsVal(Tail(s))
          ELSE IF s[1] = "+" THEN DigitsVal(Tail(s))
          ELSE DigitsVal(s)

-----------------------------------------------------------------------------
(* The configuration tree and the vyos.config.Config queries made on it *)

NoNode == [node |-> "absent"]

Exists(node) == node # NoNode
\* a sub-node, a leaf value and the child names below a level that may not exist
Child(node, key) == IF node = NoNode THEN NoNode ELSE node[key]
ReturnValue(node, key) == IF node = NoNode THEN NoStr ELSE node[key]
ListNodes(node, key) == IF node = NoNode THEN << >> ELSE node[key]

Chars10 == <<"0", "1", "2", "3", "4", "5", "6", "7", "8", "9">>

\* "service lldp interface <name> location" subtrees
LocElin == [civic |-> NoNode, elin |-> Chars10, coord |-> NoNode]
LocCivicCoord ==
    [civic |-> [country_code |-> <<"U", "S">>,
                ca_type |-> <<[name |-> <<"1">>, ca_value |-> <<"x">>]>>],
     elin |-> NoStr,
     coord |-> [altitude |-> NoStr, latitude |-> <<"1", "N">>,
                longitude |-> <<"2", "E">>, datum |-> NoStr]]
LocationNodes == {NoNode, LocElin, LocCivicCoord}

\* the i-th declared interface
IntfName(i) == "eth" \o ToString(i - 1)

\* the interface nodes in declaration order
IntfNodeLists ==
    UNION {[1..n -> [disable : BOOLEAN, location : LocationNodes]] :
              n \in 0..MaxIntfs}

MgmtAddr == <<"1", "0", ".", "0", ".", "0", ".", "1">>
\* listen-vlan, management-address and legacy-protocols of the snapshots
OptionNodes ==
    {[listen_vlan |-> FALSE, addr |-> NoStr, legacy |-> {}],
     [listen_vlan |-> TRUE, addr |-> MgmtAddr, legacy |-> {"cdp", "fdp"}],
     [listen_vlan |-> FALSE, addr |-> NoStr, legacy |-> {"edp", "sonmp"}]}

LldpNodes ==
    {[listen_vlan |-> o.listen_vlan, addr |-> o.addr, legacy |-> o.legacy,
      snmp_enable |-> s, disable |-> d,
      interface |-> [i \in 1..Len(l) |->
                       [name |-> IntfName(i), disable |-> l[i].disable,
                        location |-> l[i].location]]] :
        o \in OptionNodes, s \in BOOLEAN, d \in BOOLEAN, l \in IntfNodeLists}

\* a snapshot: the "service lldp" subtree and whether "service snmp" exists
Configs == [lldp : {NoNode} \cup LldpNodes, snmp : BOOLEAN]

-----------------------------------------------------------------------------
(* Extraction *)

get_options(conf) ==
    LET lldp == conf.lldp
        snmp == lldp.snmp_enable
        base == [listen_vlan |-> lldp.listen_vlan,
                 addr |-> ReturnValue(lldp, "addr"),
                 snmp |-> snmp,
                 cdp |-> "cdp" \in lldp.legacy,
                 edp |-> "edp" \in lldp.legacy,
                 fdp |-> "fdp" \in lldp.legacy,
                 sonmp |-> "sonmp" \in lldp.legacy,
                 description |-> "unknown",
                 listen_on |-> << >>]
    IN  IF snmp THEN base @@ [sys_snmp |-> conf.snmp] ELSE base

get_interface_list(conf) ==
    LET intfs == ListNodes(conf.lldp, "interface")
    IN  IF Len(intfs) < 0 THEN Zero
        ELSE PyList([i \in 1..Len(intfs) |->
                        [name |-> intfs[i].name, disable |-> intfs[i].disable]])

\* the record built by lines 102-141 from the level "<path> location"
location_record(name, loc) ==
    LET civ == Child(loc, "civic")
        crd == Child(loc, "coord")
        cas == ListNodes(civ, "ca_type")
    IN  [name |-> name,
         civic_based |->
            IF Exists(civ)
            THEN [country_code |-> ReturnValue(civ, "country_code"),
                  ca_type |-> [k \in 1..Len(cas) |->
                                 [name |-> cas[k].name, ca_val |-> cas[k].ca_value]]]
            ELSE EmptyDict,
         elin |->
            IF ~Exists(civ) /\ ReturnValue(loc, "elin") # NoStr
            THEN ReturnValue(loc, "elin") ELSE NoStr,
         coordinate_based |->
            IF ~Exists(civ) /\ ReturnValue(loc, "elin") = NoStr /\ Exists(crd)
            THEN [altitude |-> ReturnValue(crd, "altitude"),
                  latitude |-> ReturnValue(crd, "latitude"),
                  longitude |-> ReturnValue(crd, "longitude"),
                  datum |-> ReturnValue(crd, "datum")]
            ELSE EmptyDict]

get_location_intf(intf) ==
    IF Exists(intf.location) THEN Zero
    ELSE location_record(intf.name, intf.location)

get_location(conf) ==
    LET intfs == ListNodes(conf.lldp, "interface")
    IN  IF Len(intfs) < 0 THEN Zero
        ELSE IF conf.lldp.disable THEN Zero
        ELSE PyList([i \in 1..Len(intfs) |-> get_location_intf(intfs[i])])

get_config(conf) ==
    IF ~Exists(conf.lldp) THEN None
    ELSE [options |-> get_options(conf),
          interface_list |-> get_interface_list(conf),
          location |-> get_location(conf)]

-----------------------------------------------------------------------------
(* verify *)

RECURSIVE verify_ca_types(_, _, _)
\* lines 199-206: the loop over civic_based['ca_type'], from entry k on
verify_ca_types(name, ca_type, k) ==
    IF k > Len(ca_type) THEN NoExc
    ELSE IF ~IntOK(ca_type[k].name)
    THEN Raise("ValueError", "invalid literal for int() with base 10")
    ELSE IF ~(PyInt(ca_type[k].name) \in 0..128)
    THEN ConfigError("Invalid location for interface " \o name
                     \o ":\nca-type must between 0-128")
    ELSE IF ~Truthy(ca_type[k].ca_val)
    THEN ConfigError("Invalid location for interface " \o name
                     \o ":\nmust configure the ca-value for ca-type "
                     \o Str(ca_type[k].name))
    ELSE verify_ca_types(name, ca_type, k + 1)

\* lines 181-240: the body of the loop over lldp['location'] for one entry
verify_location(location) ==
    IF IsInt(location)
    THEN Raise("TypeError", "'int' object is not subscriptable")
    ELSE
    LET name == location.name
        civic == location.civic_based
        coord == location.coordinate_based
        elin == location.elin
    IN  IF PyLen(civic) > 0 THEN
            IF PyLen(coord) > 0 \/ Truthy(elin)
            THEN ConfigError("Can only configure 1 location type for interface "
                             \o name)
            ELSE IF ~Truthy(civic.country_code)
            THEN ConfigError("Invalid location for interface " \o name
                             \o ":\nmust configure the country code")
            ELSE IF ~ReCountryCode(civic.country_code)
            THEN ConfigError("Invalid location for interface " \o name
                             \o ":\ncountry-code must be 2 characters")
            ELSE IF Len(civic.ca_type) < 0
            THEN ConfigError("Invalid location for interface " \o name
                             \o ":\nmust define at least 1 ca-type")
            ELSE verify_ca_types(name, civic.ca_type, 1)
        ELSE IF PyLen(coord) > 0 THEN
            IF ~Truthy(coord.longitude)
            THEN ConfigError("Must define longitude for interface " \o name)
            ELSE IF ~Truthy(coord.latitude)
            THEN ConfigError("Must define latitude for interface " \o name)
            ELSE IF ~ReLatitude(coord.latitude)
            THEN ConfigError("Invalid location for interface " \o name
                             \o ":\nlatitude should be a number followed by S or N")
            ELSE IF ~ReLongitude(coord.longitude)
            THEN ConfigError("Invalid location for interface " \o name
                             \o ":\nlongitude should be a number followed by E or W")
            ELSE IF Truthy(coord.altitude) /\ ~ReAltitude(coord.altitude)
            THEN ConfigError("Invalid location for interface " \o name
                             \o ":\naltitude should be a positive or negative number")
            ELSE IF Truthy(coord.datum) /\ ~ReDatum(coord.datum)
            THEN ConfigError("Invalid location for interface " \o name
                             \o ":\n' 'datum should be WGS84, NAD83, or MLLW")
            ELSE NoExc
        ELSE IF Truthy(elin) THEN
            IF ~ReElin(elin)
            THEN ConfigError("Invalid location for interface " \o name
                             \o ":\nELIN number must be between 10-25 numbers")
            ELSE NoExc
        ELSE NoExc

RECURSIVE verify_locations_collect(_, _)
\* the loop going on after a violation and reporting the last one
verify_locations_collect(locs, i) ==
    IF i > Len(locs) THEN NoExc
    ELSE LET e == verify_locations_collect(locs, i + 1)
         IN  IF e # NoExc THEN e ELSE verify_location(locs[i])

RECURSIVE verify_locations(_, _)
\* line 180: the loop, from entry i on; a raise leaves it
verify_locations(locs, i) ==
    IF i > Len(locs) THEN NoExc
    ELSE LET e == verify_location(locs[i])
         IN  IF e # NoExc THEN e ELSE verify_locations(locs, i + 1)

\* the SNMP rule without the look at the system-wide service
verify_options_lldp_only(options) ==
    IF options.snmp
    THEN ConfigError("SNMP must be configured to enable LLDP SNMP")
    ELSE NoExc

\* lines 242-245
verify_options(options) ==
    IF options.snmp
    THEN IF "sys_snmp" \notin DOMAIN options
         THEN Raise("KeyError", "'sys_snmp'")
         ELSE IF ~options.sys_snmp
         THEN ConfigError("SNMP must be configured to enable LLDP SNMP")
         ELSE NoExc
    ELSE NoExc

\* the exception verify(lldp) raises, NoExc when it returns
verify(lldp) ==
    IF lldp = None THEN NoExc
    ELSE IF IsInt(lldp.location)
    THEN Raise("TypeError", "'int' object is not iterable")
    ELSE LET e == verify_locations(lldp.location.list, 1)
         IN  IF e # NoExc THEN e ELSE verify_options(lldp.options)

-----------------------------------------------------------------------------
(* generate *)

config_file == "/etc/default/lldpd"
vyos_config_file == "/etc/lldpd.d/01-vyos.conf"

\* contents of /opt/vyatta/etc/version after split(); the second is a file
\* with fewer than two tokens
VersionFiles == {<<"Version:", "1.2.6">>, <<"Version:">>}

Flag(b, text) == IF b THEN text ELSE ""

\* lldp_tmpl rendered with the options
render_lldp(options) ==
    <<"### Autogenerated by lldp.py ###",
      "DAEMON_ARGS=\"-M4"
        \o Flag(options.snmp, " -x")
        \o Flag(Truthy(options.addr), " -m " \o Str(options.addr))
        \o Flag(options.cdp, " -c")
        \o Flag(options.edp, " -e")
        \o Flag(options.fdp, " -f")
        \o Flag(options.sonmp, " -s")
        \o "\"">>

pattern_line(listen_on) ==
    "configure system interface pattern \"" \o Join(listen_on, ",") \o "\""

\* vyos_tmpl rendered with the options
render_vyos(options) ==
    <<"### Autogenerated by lldp.py ###",
      "configure system platform VyOS",
      "configure system description \"VyOS " \o options.description \o "\"">>
    \o (IF options.listen_on # << >>
        THEN <<pattern_line(options.listen_on)>> ELSE << >>)

\* the exclamation mark on the enabled interfaces
listen_entry_inverted(intf) == Flag(~intf.disable, "!") \o intf.name

\* lines 259-266: one listen_on entry per interface_list entry
listen_entry(intf) == Flag(intf.disable, "!") \o intf.name

listen_on_of(listen_on, interface_list) ==
    listen_on \o [i \in 1..Len(interface_list) |-> listen_entry(interface_list[i])]

Write(fs, path, text) ==
    [p \in DOMAIN fs \cup {path} |-> IF p = path THEN text ELSE fs[p]]

\* generate(lldp) with the file system fs and the version file's tokens:
\* the model object, the file system and the exception afterwards
generate(lldp, fs, version) ==
    IF lldp = None THEN [lldp |-> lldp, files |-> fs, exc |-> NoExc]
    ELSE IF Len(version) < 2
    THEN [lldp |-> lldp, files |-> fs,
          exc |-> Raise("IndexError", "list index out of range")]
    ELSE
    LET o1 == [lldp.options EXCEPT !.description = version[2]]
        l1 == [lldp EXCEPT !.options = o1]
    IN  IF IsInt(lldp.interface_list)
        THEN [lldp |-> l1, files |-> fs,
              exc |-> Raise("TypeError", "'int' object is not iterable")]
        ELSE
        LET o2 == [o1 EXCEPT !.listen_on =
                      listen_on_of(o1.listen_on, lldp.interface_list.list)]
            l2 == [l1 EXCEPT !.options = o2]
            f1 == Write(fs, config_file, render_lldp(o2))
            f2 == Write(f1, vyos_config_file, render_vyos(o2))
        IN  [lldp |-> l2, files |-> f2, exc |-> NoExc]

-----------------------------------------------------------------------------
(* apply *)

Unlink(fs, path) == [p \in DOMAIN fs \ {path} |-> fs[p]]

\* apply with the two branches exchanged
apply_swapped(lldp, fs) ==
    IF lldp = None
    THEN [files |-> fs, cmds |-> <<"restart">>, exc |-> NoExc]
    ELSE [files |-> Unlink(fs, config_file), cmds |-> <<"stop">>, exc |-> NoExc]

\* apply removing both generated files on teardown
apply_unlink_both(lldp, fs) ==
    IF lldp # None
    THEN [files |-> fs, cmds |-> <<"restart">>, exc |-> NoExc]
    ELSE IF config_file \in DOMAIN fs
    THEN [files |-> Unlink(Unlink(fs, config_file), vyos_config_file),
          cmds |-> <<"stop">>, exc |-> NoExc]
    ELSE [files |-> fs, cmds |-> <<"stop">>,
          exc |-> Raise("FileNotFoundError", config_file)]

\* apply(lldp) with the file system fs: the file system, the os.system
\* commands issued and the exception afterwards
apply(lldp, fs) ==
    IF lldp # None
    THEN [files |-> fs, cmds |-> <<"restart">>, exc |-> NoExc]
    ELSE IF config_file \in DOMAIN fs
    THEN [files |-> Unlink(fs, config_file), cmds |-> <<"stop">>, exc |-> NoExc]
    ELSE [files |-> fs, cmds |-> <<"stop">>,
          exc |-> Raise("FileNotFoundError", config_file)]

\* lldpd.service after a systemctl command
systemctl(state, cmd) == IF cmd = "restart" THEN "active" ELSE "inactive"

RECURSIVE run_cmds(_, _)
run_cmds(state, cmds) ==
    IF cmds = << >> THEN state
    ELSE run_cmds(systemctl(state, Head(cmds)), Tail(cmds))

-----------------------------------------------------------------------------
(* __main__ *)

\* the try block without the except clause's exit: a ConfigError is swallowed
Continue_swallow(e, next) ==
    IF e = NoExc \/ e.type = "ConfigError" THEN next ELSE "uncaught"

\* where the try block of __main__ goes after a stage ended with e
Continue(e, next) ==
    IF e = NoExc THEN next
    ELSE IF e.type = "ConfigError" THEN "exit1"
    ELSE "uncaught"

\* what the except clause prints
Printed(e) == IF e.type = "ConfigError" THEN e.msg ELSE ""

Terminated == pc \in {"exit0", "exit1", "uncaught"}

NoConfig == [lldp |-> NoNode, snmp |-> FALSE]

Init ==
    /\ cfg \in Configs
    /\ pc = "get_config"
    /\ c = None
    /\ files = << >>
    /\ lldpd = "inactive"
    /\ syscalls = << >>
    /\ exc = NoExc
    /\ stdout = ""
    /\ ran = << >>
    /\ pre = [files |-> << >>, lldpd |-> "inactive"]

\* the process is gone; the files and the service stay
Exit ==
    /\ Terminated
    /\ pc' = "idle"
    /\ cfg' = NoConfig
    /\ c' = None
    /\ syscalls' = << >>
    /\ exc' = NoExc
    /\ stdout' = ""
    /\ ran' = << >>
    /\ pre' = [files |-> files, lldpd |-> lldpd]
    /\ UNCHANGED <<files, lldpd>>

\* a later commit starts the script again on a new snapshot
Commit ==
    /\ pc = "idle"
    /\ cfg' \in Configs
    /\ pc' = "get_config"
    /\ UNCHANGED <<c, files, lldpd, syscalls, exc, stdout, ran, pre>>

GetConfig ==
    /\ pc = "get_config"
    /\ c' = get_config(cfg)
    /\ pc' = "verify"
    /\ ran' = Append(ran, "get_config")
    /\ UNCHANGED <<cfg, files, lldpd, syscalls, exc, stdout, pre>>

Verify ==
    /\ pc = "verify"
    /\ LET e == verify(c)
       IN  /\ exc' = e
           /\ stdout' = Printed(e)
           /\ pc' = Continue(e, "generate")
    /\ ran' = Append(ran, "verify")
    /\ UNCHANGED <<cfg, c, files, lldpd, syscalls, pre>>

Generate ==
    /\ pc = "generate"
    /\ \E version \in VersionFiles :
          LET r == generate(c, files, version)
          IN  /\ c' = r.lldp
              /\ files' = r.files
              /\ exc' = r.exc
              /\ stdout' = Printed(r.exc)
              /\ pc' = Continue(r.exc, "apply")
    /\ ran' = Append(ran, "generate")
    /\ UNCHANGED <<cfg, lldpd, syscalls, pre>>

Apply ==
    /\ pc = "apply"
    /\ LET r == apply(c, files)
       IN  /\ files' = r.files
           /\ syscalls' = syscalls \o r.cmds
           /\ lldpd' = run_cmds(lldpd, r.cmds)
           /\ exc' = r.exc
           /\ stdout' = Printed(r.exc)
           /\ pc' = Continue(r.exc, "exit0")
    /\ ran' = Append(ran, "apply")
    /\ UNCHANGED <<cfg, c, pre>>

Next == Exit \/ Commit \/ GetConfig \/ Verify \/ Generate \/ Apply

Spec == Init /\ [][Next]_vars

-----------------------------------------------------------------------------
(* verify on its own: models of the shape get_config documents, with the   *)
(* location records populated                                              *)

CaType(name, val) == [name |-> name, ca_val |-> val]
Civic(cc, ca_type) == [country_code |-> cc, ca_type |-> ca_type]
US == <<"U", "S">>

CivicDicts ==
    {EmptyDict,
     Civic(US, <<CaType(<<"0">>, <<"x">>), CaType(<<"1", "2", "8">>, <<"y">>)>>),
     Civic(US, << >>),
     Civic(<<"U", "1">>, <<CaType(<<"1">>, <<"x">>)>>),
     Civic(US, <<CaType(<<"1", "2", "9">>, <<"x">>)>>),
     Civic(US, <<CaType(<<"a", "b", "c">>, <<"x">>)>>)}

Elins == {NoStr, Chars10, SubSeq(Chars10, 1, 9)}

Coord(alt, lat, lon, datum) ==
    [altitude |-> alt, latitude |-> lat, longitude |-> lon, datum |-> datum]

CoordDicts ==
    {EmptyDict,
     Coord(<<"-", "5">>, <<"4", "5", ".", "5", "N">>, <<"2", "E">>,
           <<"W", "G", "S", "8", "4">>),
     Coord(NoStr, <<"4", "5", ".", "5">>, <<"2", "E">>, NoStr)}

LocationDicts ==
    [civic_based : CivicDicts, elin : Elins, coordinate_based : CoordDicts]

\* the entry of the i-th declared interface
LocationEntry(i, d) ==
    [name |-> IntfName(i), civic_based |-> d.civic_based, elin |-> d.elin,
     coordinate_based |-> d.coordinate_based]

\* the lists of n entries, the i-th named after the i-th interface
LocationList(l) ==
    [i \in 1..Len(l) |-> IF IsInt(l[i]) THEN Zero ELSE LocationEntry(i, l[i])]

DefaultOptions ==
    [listen_vlan |-> FALSE, addr |-> NoStr, snmp |-> FALSE, cdp |-> FALSE,
     edp |-> FALSE, fdp |-> FALSE, sonmp |-> FALSE, description |-> "unknown",
     listen_on |-> << >>]

VerifyOptions ==
    {DefaultOptions} \cup
    {[DefaultOptions EXCEPT !.snmp = TRUE] @@ [sys_snmp |-> b] : b \in BOOLEAN}

VerifyModel(o, l) ==
    [options |-> o,
     interface_list |-> PyList([i \in 1..Len(l) |->
                                  [name |-> IntfName(i), disable |-> FALSE]]),
     location |-> PyList(l)]

InitVerify ==
    /\ cfg = NoConfig
    /\ pc = "verify"
    /\ \E o \in VerifyOptions, n \in 0..MaxIntfs :
          \E l \in [1..n -> {Zero} \cup LocationDicts] :
             c = VerifyModel(o, LocationList(l))
    /\ files = << >>
    /\ lldpd = "inactive"
    /\ syscalls = << >>
    /\ exc = NoExc
    /\ stdout = ""
    /\ ran = <<"get_config">>
    /\ pre = [files |-> << >>, lldpd |-> "inactive"]

NextVerify == Verify

SpecVerify == InitVerify /\ [][NextVerify]_vars

-----------------------------------------------------------------------------
(* Properties *)

Ran(stage) == \E i \in 1..Len(ran) : ran[i] = stage
\* verify was the last stage entered
AfterVerify == ran # << >> /\ ran[Len(ran)] = "verify"
SnmpMsg == "SNMP must be configured to enable LLDP SNMP"
Untouched ==
    files = pre.files /\ lldpd = pre.lldpd /\ syscalls = << >>

\* C1: whenever verify raises ConfigError, the run prints the message and
\* exits with status 1 without entering generate or apply; both files and
\* the service are as they were before the run.
C1_ConfigErrorLeavesSystemUntouched ==
    (AfterVerify /\ exc.type = "ConfigError") =>
        /\ pc = "exit1"
        /\ stdout = exc.msg /\ stdout # ""
        /\ ran = <<"get_config", "verify">>
        /\ Untouched

C1_Witness ==
    /\ pc = "exit1" /\ exc.type = "ConfigError" /\ AfterVerify
    /\ DOMAIN files = {config_file, vyos_config_file}
    /\ lldpd = "active"

\* C2: with the LLDP service absent get_config returns None, verify and
\* generate change nothing and raise nothing, and apply stops the service
\* and leaves no launch-argument file; with a non-null model apply restarts
\* the service and deletes no file.
C2_NullModelTeardown ==
    /\ Ran("get_config") => (c = None <=> ~Exists(cfg.lldp))
    /\ (c = None /\ Ran("verify") /\ ~Ran("apply")) =>
          exc = NoExc /\ stdout = "" /\ Untouched
    /\ (c = None /\ Ran("generate")) => pc \in {"apply", "exit0", "uncaught"}
    /\ (c = None /\ Ran("apply")) =>
          /\ syscalls = <<"stop">>
          /\ lldpd = "inactive"
          /\ config_file \notin DOMAIN files
          /\ DOMAIN files = DOMAIN pre.files \ {config_file}
          /\ \A p \in DOMAIN files : files[p] = pre.files[p]
    /\ (c # None /\ Ran("apply")) =>
          /\ syscalls = <<"restart">>
          /\ lldpd = "active"
          /\ DOMAIN files = {config_file, vyos_config_file}
          /\ pc = "exit0"

C2_Witness ==
    /\ c = None /\ Ran("apply") /\ pc = "exit0"
    /\ config_file \in DOMAIN pre.files
    /\ pre.lldpd = "active"

\* the records of the interfaces that declare a location, in declaration order
RECURSIVE DeclaredLocations(_)
DeclaredLocations(intfs) ==
    IF intfs = << >> THEN << >>
    ELSE (IF Exists(Head(intfs).location)
          THEN <<location_record(Head(intfs).name, Head(intfs).location)>>
          ELSE << >>) \o DeclaredLocations(Tail(intfs))

\* C3: location extraction adds no entry for an interface whose location
\* subtree is absent and adds the record read from the subtree when it is
\* present.
C3_LocationsOnlyForDeclared ==
    (Ran("get_config") /\ Exists(cfg.lldp) /\ ~cfg.lldp.disable) =>
        /\ ~IsInt(c.location)
        /\ c.location.list = DeclaredLocations(cfg.lldp.interface)

\* C4: for every snapshot with the LLDP service present, verify on the model
\* get_config builds returns or raises ConfigError, nothing else.
C4_VerifyOnlyConfigError ==
    (AfterVerify /\ c # None) => exc.type \in {"none", "ConfigError"}

Populated(location) ==
    {v \in {"civic", "coordinate", "elin"} :
        \/ v = "civic" /\ PyLen(location.civic_based) > 0
        \/ v = "coordinate" /\ PyLen(location.coordinate_based) > 0
        \/ v = "elin" /\ Truthy(location.elin)}

\* the location list verify was given, when it is a list whose first entry
\* is a record
FirstIsRecord ==
    /\ c # None /\ ~IsInt(c.location)
    /\ c.location.list # << >> /\ ~IsInt(c.location.list[1])

LocationsPass(lldp) ==
    /\ ~IsInt(lldp.location)
    /\ \A i \in 1..Len(lldp.location.list) :
          verify_location(lldp.location.list[i]) = NoExc

\* C7: for a non-null model of get_config whose locations all pass, verify
\* raises ConfigError (the SNMP message) exactly when LLDP SNMP is enabled
\* and the system-wide SNMP service is not configured; otherwise it returns.
C7_SnmpRule ==
    (AfterVerify /\ c # None /\ LocationsPass(c)) =>
        /\ c.options.snmp = cfg.lldp.snmp_enable
        /\ c.options.snmp => c.options.sys_snmp = cfg.snmp
        /\ IF cfg.lldp.snmp_enable /\ ~cfg.snmp
           THEN exc = ConfigError(SnmpMsg) /\ pc = "exit1"
           ELSE exc = NoExc /\ pc = "generate"

C7_Witness ==
    /\ AfterVerify /\ c # None /\ LocationsPass(c)
    /\ Len(c.location.list) = 2
    /\ exc = ConfigError(SnmpMsg)

\* C8: after generate on a validated non-null model, listen_on has one entry
\* per declared interface, in declaration order, the name prefixed with '!'
\* exactly when the interface is disabled; the interface-pattern line is in
\* the native config file exactly when the list is non-empty.
C8_ListenOn ==
    (c # None /\ Ran("generate") /\ pc \in {"apply", "exit0"}) =>
        LET intfs == cfg.lldp.interface
            listen_on == c.options.listen_on
            text == files[vyos_config_file]
        IN  /\ Len(listen_on) = Len(intfs)
            /\ \A i \in 1..Len(intfs) :
                  listen_on[i] = IF intfs[i].disable
                                 THEN "!" \o intfs[i].name ELSE intfs[i].name
            /\ Len(text) = IF listen_on = << >> THEN 3 ELSE 4
            /\ listen_on = <<"eth0", "!eth1">> =>
                  text[4] = "configure system interface pattern \"eth0,!eth1\""
            /\ listen_on = <<"!eth0">> =>
                  text[4] = "configure system interface pattern \"!eth0\""

C8_Witness ==
    /\ c # None /\ Ran("generate") /\ pc = "apply"
    /\ c.options.listen_on = <<"eth0", "!eth1">>
    /\ Len(files[vyos_config_file]) = 4

Violations(locs) == {i \in 1..Len(locs) : verify_location(locs[i]) # NoExc}
Earliest(locs) == CHOOSE i \in Violations(locs) : \A j \in Violations(locs) : i <= j

\* C9: verify reports the earliest entry, in declaration order, that breaks
\* a rule, and applies the SNMP rule only when every entry has passed.
C9_FirstViolationWins ==
    (AfterVerify /\ c # None /\ ~IsInt(c.location)) =>
        LET locs == c.location.list
        IN  IF Violations(locs) # {}
            THEN /\ exc = verify_location(locs[Earliest(locs)])
                 /\ \A j \in Violations(locs) \ {Earliest(locs)} :
                       (~IsInt(locs[j]) /\ exc.type = "ConfigError") =>
                          exc # verify_location(locs[j])
                 /\ exc.msg # SnmpMsg
            ELSE exc = verify_options(c.options)

C9_Witness ==
    /\ AfterVerify /\ c # None /\ ~IsInt(c.location)
    /\ Violations(c.location.list) = {1, 2}
    /\ exc.type = "ConfigError"
    /\ verify_location(c.location.list[2]).type = "ConfigError"
    /\ c.options.snmp /\ ~c.options.sys_snmp

Has(fs, path) == path \in DOMAIN fs

\* C10: no step deletes the native config file; it changes only when
\* generate writes it for a non-null model, and then holds what generate
\* rendered; a run with the service absent removes nothing but the
\* launch-argument file.
C10_NativeConfigPersists ==
    [][/\ Has(files, vyos_config_file) => Has(files', vyos_config_file)
       /\ (Has(files', vyos_config_file) /\
             (~Has(files, vyos_config_file)
                 \/ files'[vyos_config_file] # files[vyos_config_file])) =>
             /\ pc = "generate" /\ pc' = "apply" /\ c # None
             /\ files'[vyos_config_file] = render_vyos(c'.options)
       /\ c = None =>
             \A p \in DOMAIN files \ {config_file} :
                 Has(files', p) /\ files'[p] = files[p]]_vars

C10_Witness ==
    /\ c = None /\ pc = "exit0" /\ Ran("apply")
    /\ Has(pre.files, config_file)
    /\ ~Has(files, config_file)
    /\ Has(files, vyos_config_file)
    /\ Len(files[vyos_config_file]) = 4

=============================================================================
